---- MODULE Spec2Model ----
(***************************************************************************)
(* Booking ingestion of kookaburra.health: the merge/dedupe decision of    *)
(* BookingIngestionService.process_booking_row, the per-file transaction   *)
(* ingest_file, and the per-folder loop process_folder with its file       *)
(* discovery.                                                               *)
(*                                                                         *)
(* Values are written as the text str() gives for them: a date is          *)
(* "2025-09-19", a Decimal is "100" or "100.00" (same number, different    *)
(* exponent), None is "None".  A row (the dict booking_data) is a function *)
(* from the keys it holds to values; a Booking is a function from the      *)
(* model's field names to values.                                          *)
(***************************************************************************)
EXTENDS Integers, Sequences, FiniteSets, TLC

None == "None"

\* ---------------------------------------------------------------- bounds
MaxCalls == 2      \* direct process_booking_row calls explored by SpecRow
MaxTime == 2       \* data_time values 1..MaxTime of the runs SpecRow passes in
MaxFiles == 2      \* files the provider ever lists
MaxRows == 2       \* non-empty data rows of one sheet
MaxDay == 2        \* calendar days 1..MaxDay of creation times and filename dates
TodsPerDay == 2    \* times of day 0..TodsPerDay-1 within one day
MaxFolders == 2    \* watched folders 1..MaxFolders
MaxIterations == 3 \* values 0..MaxIterations of --max-iterations
MaxPolls == 4      \* loop iterations explored of a poll_bookings run
MaxUsers == 2      \* users 1..MaxUsers
MaxClock == 2      \* instants 1..MaxClock of timezone.now()
MaxSessions == 2   \* browser sessions 1..MaxSessions
MaxTokenWrites == 2 \* times token.pickle is written
MaxToday == 19     \* days 0..MaxToday of django_timezone.now().date()
MaxStays == 2      \* bookings of the caller in the connected folder
MaxCells == 3      \* cells of the first row given to detect_header_row

\* ------------------------------------------------------- fields and values
\* The columns of the sheet that are modelled, in sheet order.  The other
\* columns of COLUMN_MAPPING are CharField or Decimal attributes handled by
\* the same code paths as status, dual_key and total_amount.
COLUMN_MAPPING == <<"booking_number", "status", "first_name", "surname", "arrive_date", "depart_date", "deposit_required", "total_amount", "dual_key">>

ColumnFields == {COLUMN_MAPPING[i] : i \in 1..Len(COLUMN_MAPPING)}

char_fields == {"status", "first_name", "surname", "dual_key"}

DecimalFields == {"deposit_required", "total_amount", "original_total"}

IMMUTABLE_FIELDS == {"booking_number", "arrive_date", "depart_date", "original_total", "deposit_required"}

MetaKeys == {"_row_index", "_raw_data"}

\* Every attribute of the Booking model that is modelled.
BookingFields == ColumnFields \cup {"booking_date", "original_total", "source_file_id", "source_file_time", "source_row_hash", "ingestion_run"}

\* The facts the Booking model declares immutable.
ImmutableFacts == {"booking_date", "arrive_date", "depart_date", "original_total", "deposit_required"}

\* The attributes the Booking model declares mutable (those modelled).
MutableAttributes == {"status", "first_name", "surname", "total_amount", "dual_key"}

MergeMetadata == {"source_file_id", "source_file_time", "source_row_hash", "ingestion_run"}

\* DecimalField(max_digits=10, decimal_places=2): what is read back from the
\* table is the stored number at two decimal places.
Quantize(d) ==
    CASE d = "0" -> "0.00"
      [] d = "100" -> "100.00"
      [] OTHER -> d

\* Python truthiness of a normalized value: None, '' and Decimal zero are falsy.
Truthy(v) == v \notin {None, "", "0", "0.00"}

\* ------------------------------------------------------------ sheet rows
\* A raw row is the list of cells of one sheet line, cell text already
\* stripped; the provider omits trailing empty cells, so a row can be short.
BaseRow == <<"214078", "Booking", "Ann", "", "2025-09-19", "2025-09-22", "100.00", "810.40", "N">>

CellValues ==
    [booking_number |-> {"214078", "214079", "ABC", ""},
     status |-> {"Booking", "Cancelled"},
     first_name |-> {"Ann", ""},
     surname |-> {"", "Lee"},
     arrive_date |-> {"2025-09-19", "2025-09-20", ""},
     depart_date |-> {"2025-09-22", "2025-09-23", ""},
     deposit_required |-> {"100.00", "100", "200.00", ""},
     total_amount |-> {"810.40", "900.00", "0", ""},
     dual_key |-> {"N"}]

\* BaseRow with its deposit as the provider returns a whole-number cell.
WholeRow == [BaseRow EXCEPT ![7] = "100"]

\* The rows that differ from the row base in at most one cell, and base
\* without its trailing cell.
OneCellRows(base) ==
    {base, SubSeq(base, 1, Len(base) - 1)}
    \cup UNION {{[base EXCEPT ![i] = v] : v \in CellValues[COLUMN_MAPPING[i]]} : i \in 1..Len(base)}

SheetRows == OneCellRows(BaseRow) \cup OneCellRows(WholeRow)

Digits == {"214078", "214079"}

\* normalize_value: an empty cell is '' for a CharField column and None for
\* the others; date and decimal parsing of a well-formed cell keeps its text.
normalize_value(value, field_name) ==
    IF value = None \/ value = ""
    THEN (IF field_name \in char_fields THEN "" ELSE None)
    ELSE value

\* normalize_row_data: one key per mapped column (None past the end of the
\* row), original_total back-filled from a truthy total_amount, plus metadata.
normalize_row_data(row, row_index) ==
    LET normalized == [f \in ColumnFields |->
            LET i == CHOOSE j \in 1..Len(COLUMN_MAPPING) : COLUMN_MAPPING[j] = f
            IN IF i <= Len(row) THEN normalize_value(row[i], f) ELSE None]
        filled == IF Truthy(normalized["total_amount"])
                  THEN normalized @@ ("original_total" :> normalized["total_amount"])
                  ELSE normalized
    IN filled @@ ("_row_index" :> row_index) @@ ("_raw_data" :> row)

\* validate_booking_row: "" when valid, else the error message.
validate_booking_row(normalized_data) ==
    IF ~Truthy(normalized_data["booking_number"]) THEN "Missing booking number"
    ELSE IF normalized_data["booking_number"] \notin Digits THEN "Invalid booking number format"
    ELSE IF ~Truthy(normalized_data["first_name"]) /\ ~Truthy(normalized_data["surname"]) THEN "Missing guest name"
    ELSE IF ~Truthy(normalized_data["arrive_date"]) THEN "Missing arrival date"
    ELSE ""

\* ------------------------------------------------------------- the tables
VARIABLES
    bookings,     \* the Booking table: a set of Booking rows
    conflicts,    \* the BookingConflict table
    runs,         \* the IngestionRun table
    processed,    \* the ProcessedFile table
    rawrows,      \* the RawRow table
    quarantined,  \* the QuarantinedRow table
    snapshot,     \* the tables as committed when the open transaction began
    drive,        \* the provider's files, in creation order
    pc,           \* "idle", or inside process_folder: "folder" (between files), "rows" (inside ingest_file)
    queue,        \* process_folder: the discovered files still to ingest
    ing,          \* ingest_file: its locals
    results,      \* process_folder: the results dict being built, then returned
    ended,        \* how the latest ingest_file call of this process_folder call ended
    ncalls,       \* number of direct process_booking_row calls made
    last,         \* the latest process_booking_row call (of this process_folder call): arguments, tables before, result
    history,      \* every direct process_booking_row call so far, in order
    rival,        \* a second ingestion trigger, suspended between two ingest_file calls: its position, files still to ingest and results
    poll,         \* the poll_bookings command: its options, loop counter and position
    watched_folders, \* the GoogleDriveFolder table: the folder_ids registered
    watches,      \* the GoogleDriveWatchConfig table
    watch_call,   \* the latest setup_google_drive_watch call: request, response status, table before
    users,        \* the User table: username and stored email of each account
    questionnaires, \* the PatientQuestionnaire table
    clock,        \* timezone.now()
    user_call,    \* the latest create_patient_user call: request, response status, tables before
    sessions,     \* google_auth_state of each browser session ("" when the session holds none)
    started,      \* the sessions in which start_google_auth has stored a state since they were last flushed
    token_file,   \* token.pickle: 0 when the file does not exist, else the number of times it was written
    credentials_file, \* whether credentials.json exists
    auth_call,    \* the latest OAuth view call: view, session, response, token file before
    today,        \* django_timezone.now().date(), as a day number (day 0 is a Sunday)
    stays,        \* the caller's bookings of the connected folder: arrive_date, depart_date, status
    offered,      \* the bookings some rendering has listed as T-14 ready
    workflow,     \* the latest rendering of the guest extra night workflow page
    header_call,  \* the latest detect_header_row call: first row and answer
    decimal_call, \* the latest parse_decimal call: text and answer
    date_call,    \* the latest date normalization: cell value and answer
    q_call        \* the latest update_questionnaire call: caller, payload, questionnaire before and after, and the same of the call before it when that was the same request

tables == <<bookings, conflicts, runs, processed, rawrows, quarantined>>

folder_vars == <<snapshot, drive, pc, queue, ing, results, ended>>

pipeline_vars == <<tables, folder_vars, ncalls, last, history>>

\* The state outside the running ingestion trigger.
\* The watch administration state.
watch_vars == <<watched_folders, watches, watch_call>>

\* The accounts and questionnaires of the intake flow.
user_vars == <<users, questionnaires, clock, user_call, q_call>>

\* The interactive OAuth flow.
auth_vars == <<sessions, started, token_file, credentials_file, auth_call>>

\* The guest extra night workflow page.
desk_vars == <<today, stays, offered, workflow>>

\* The latest calls of the sheet service's pure functions.
sheet_vars == <<header_call, decimal_call, date_call>>

side_vars == <<rival, poll, watch_vars, user_vars, auth_vars, desk_vars, sheet_vars>>

vars == <<pipeline_vars, side_vars>>

\* calculate_row_hash: the digest of the row without its '_' keys, modelled
\* by that content itself.
calculate_row_hash(row_data) ==
    [k \in DOMAIN row_data \ MetaKeys |-> row_data[k]]

\* What a column holds after a write: decimals at two places.
DbValue(field, v) ==
    IF field \in DecimalFields /\ v # None THEN Quantize(v) ELSE v

\* A CharField is NOT NULL: writing None to it is an IntegrityError.
NullViolation(b) == \E f \in char_fields : b[f] = None

\* Booking.objects.create(**clean_data, source_file_id=..., ...)
NewBooking(booking_data, run) ==
    [f \in BookingFields |->
        CASE f = "source_file_id" -> run.file_id
          [] f = "source_file_time" -> run.data_time
          [] f = "source_row_hash" -> calculate_row_hash(booking_data)
          [] f = "ingestion_run" -> run.id
          [] f \in DOMAIN booking_data \ MetaKeys -> DbValue(f, booking_data[f])
          [] OTHER -> (IF f \in char_fields THEN "" ELSE None)]

\* The BookingConflict rows one newer sighting logs: one per immutable field
\* present and non-null in the row whose stored value is non-null and has a
\* different str().
ConflictsOf(existing_booking, booking_data, run) ==
    {[booking_number |-> existing_booking["booking_number"],
      field_name |-> field,
      existing_value |-> existing_booking[field],
      incoming_value |-> booking_data[field],
      source_file_id |-> run.file_id,
      ingestion_run |-> run.id] :
        field \in {f \in IMMUTABLE_FIELDS \cap DOMAIN booking_data :
                      /\ booking_data[f] # None
                      /\ existing_booking[f] # None
                      /\ existing_booking[f] # booking_data[f]}}

\* The keys of the row treated as mutable attributes.
MutableFieldsOf(booking_data) ==
    (DOMAIN booking_data \ IMMUTABLE_FIELDS) \ MetaKeys

\* The existing booking after the update branch: mutable attributes taken
\* from the row, merge metadata refreshed.
\* Variant of the update that leaves the booking's source_file_time as it was.
UpdatedBookingUnstamped(existing_booking, booking_data, run) ==
    [f \in BookingFields |->
        CASE f = "source_file_id" -> run.file_id
          [] f = "source_row_hash" -> calculate_row_hash(booking_data)
          [] f = "ingestion_run" -> run.id
          [] f \in MutableFieldsOf(booking_data) -> DbValue(f, booking_data[f])
          [] OTHER -> existing_booking[f]]

UpdatedBooking(existing_booking, booking_data, run) ==
    [f \in BookingFields |->
        CASE f = "source_file_id" -> run.file_id
          [] f = "source_file_time" -> run.data_time
          [] f = "source_row_hash" -> calculate_row_hash(booking_data)
          [] f = "ingestion_run" -> run.id
          [] f \in MutableFieldsOf(booking_data) -> DbValue(f, booking_data[f])
          [] OTHER -> existing_booking[f]]

\* Variant of the comparison at line 127 that ignores no row.
NotNewerNever(booking_data, run, existing_booking) == FALSE

\* Variant of the comparison at line 127 with < in place of <=.
NotNewerStrict(booking_data, run, existing_booking) ==
    (IF "source_file_time" \in DOMAIN booking_data THEN booking_data["source_file_time"] ELSE run.data_time)
        < existing_booking["source_file_time"]

\* The row's data time is not newer than the stored one.
NotNewer(booking_data, run, existing_booking) ==
    (IF "source_file_time" \in DOMAIN booking_data
     THEN booking_data["source_file_time"]
     ELSE run.data_time) <= existing_booking["source_file_time"]

\* process_booking_row on the tables bk (bookings) and cf (conflicts):
\* the tables afterwards and the action returned ("raise" for an exception
\* raised by the database).
process_booking_row(bk, cf, booking_data, run) ==
    LET booking_number == booking_data["booking_number"]
        found == {b \in bk : b["booking_number"] = booking_number}
    IN IF found = {}
       THEN LET booking == NewBooking(booking_data, run)
            IN IF NullViolation(booking)
               THEN [bookings |-> bk, conflicts |-> cf, action |-> "raise"]
               ELSE [bookings |-> bk \cup {booking}, conflicts |-> cf, action |-> "inserted"]
       ELSE IF Cardinality(found) > 1
       THEN [bookings |-> bk, conflicts |-> cf, action |-> "raise"]
       ELSE LET existing_booking == CHOOSE b \in found : TRUE
            IN IF NotNewer(booking_data, run, existing_booking)
               THEN [bookings |-> bk, conflicts |-> cf, action |-> "ignored"]
               ELSE LET logged == ConflictsOf(existing_booking, booking_data, run)
                        saved == UpdatedBooking(existing_booking, booking_data, run)
                    IN IF NullViolation(saved)
                       THEN [bookings |-> bk, conflicts |-> cf \cup logged, action |-> "raise"]
                       ELSE [bookings |-> (bk \ {existing_booking}) \cup {saved},
                             conflicts |-> cf \cup logged,
                             action |-> IF logged # {} THEN "conflict" ELSE "updated"]

\* ------------------------------------------- direct process_booking_row calls
\* The rows a caller can pass: validated normalized rows, with or without a
\* booking_date key.
BookingDates == {"2025-08-01", "2025-08-02"}

ValidRows ==
    {r \in {normalize_row_data(raw, 1) : raw \in SheetRows} : validate_booking_row(r) = ""}

CallRows ==
    ValidRows \cup {normalize_row_data(BaseRow, 1) @@ ("booking_date" :> d) : d \in BookingDates}

NoCall == [row |-> <<>>, run |-> [id |-> 0, file_id |-> 0, data_time |-> 0], action |-> "none", before |-> {}, logged |-> {}]

\* The record of one process_booking_row call.
CallRecord(row, run, res, bk, cf) ==
    [row |-> row, run |-> run, action |-> res.action, before |-> bk, logged |-> res.conflicts \ cf]

NoTables == [bookings |-> {}, conflicts |-> {}, runs |-> {}, processed |-> {}, rawrows |-> {}, quarantined |-> {}]

NoResults == [folder_id |-> 0, files_discovered |-> 0, files_processed |-> 0, files_failed |-> 0, ingestion_runs |-> <<>>, errors |-> <<>>, message |-> "", attempted |-> <<>>]

NoIngest == [folder |-> 0, file_id |-> 0, run |-> <<>>, left |-> 0, row_index |-> 0, errors |-> <<>>, invalid |-> 0, seen |-> {}]

\* A trigger that has not called process_folder.
NoTrigger == [pc |-> "idle", queue |-> <<>>, results |-> NoResults]

\* The poll_bookings command before it is run.
NoPoll == [pc |-> "off", given |-> FALSE, max_iterations |-> 0, dry_run |-> FALSE, iteration |-> 0, polled |-> 0, logged |-> 0, interrupted |-> FALSE]

NoWatchCall == [user |-> 0, folder_id |-> 0, validation |-> "none", status |-> 0, before |-> {}]

NoUserCall == [status |-> 0, email |-> <<>>, before |-> {}, qbefore |-> {}]

NoQCall == [status |-> 0, caller |-> <<>>, data |-> <<>>, before |-> <<>>, after |-> <<>>, repeated |-> FALSE, once |-> <<>>]

NoHeaderCall == [called |-> FALSE, rows |-> <<>>, header_row_index |-> 0, has_header |-> FALSE]

\* An absent value (Python None) of parse_decimal and of parse_date.
NoDecimal == [none |-> TRUE, negative |-> FALSE, coefficient |-> 0, places |-> 0]

NoDay == [none |-> TRUE, year |-> 0, month |-> 0, day |-> 0]

NoDecimalCall == [called |-> FALSE, value |-> <<>>, result |-> NoDecimal]

NoDateCall == [called |-> FALSE, via |-> "none", value |-> [kind |-> "none", n |-> 0, month |-> 0, year |-> 0], result |-> NoDay]

NoWorkflow == [rendered |-> FALSE, error |-> FALSE, today |-> 0, workflow_guests |-> {}]

NoAuthCall == [view |-> "none", session |-> 0, status |-> 0, authenticated |-> FALSE, had_state |-> FALSE, token_before |-> 0]

NoEnd == [outcome |-> "none", file_id |-> 0, folder |-> 0, invalid |-> 0, errors |-> <<>>, run |-> <<>>, before |-> NoTables]

Init ==
    /\ bookings = {}
    /\ conflicts = {}
    /\ runs = {}
    /\ processed = {}
    /\ rawrows = {}
    /\ quarantined = {}
    /\ snapshot = NoTables
    /\ drive = <<>>
    /\ pc = "idle"
    /\ queue = <<>>
    /\ ing = NoIngest
    /\ results = NoResults
    /\ ended = NoEnd
    /\ ncalls = 0
    /\ last = NoCall
    /\ history = <<>>
    /\ rival = NoTrigger
    /\ poll = NoPoll
    /\ watched_folders = {}
    /\ watches = {}
    /\ watch_call = NoWatchCall
    /\ users = {}
    /\ questionnaires = {}
    /\ clock = 1
    /\ user_call = NoUserCall
    /\ q_call = NoQCall
    /\ sessions = [session \in 1..MaxSessions |-> ""]
    /\ started = {}
    /\ token_file = 0
    /\ credentials_file = FALSE
    /\ auth_call = NoAuthCall
    /\ today = 0
    /\ stays = {}
    /\ offered = {}
    /\ workflow = NoWorkflow
    /\ header_call = NoHeaderCall
    /\ decimal_call = NoDecimalCall
    /\ date_call = NoDateCall

InitRow == Init

CallProcessBookingRow ==
    /\ ncalls < MaxCalls
    /\ \E row \in CallRows, t \in 1..MaxTime :
        LET run == [id |-> ncalls + 1, file_id |-> ncalls + 1, data_time |-> t]
            res == process_booking_row(bookings, conflicts, row, run)
        IN /\ bookings' = res.bookings
           /\ conflicts' = res.conflicts
           /\ last' = CallRecord(row, run, res, bookings, conflicts)
           /\ history' = Append(history, [booking_number |-> row["booking_number"], data_time |-> t, row |-> row, action |-> res.action])
    /\ ncalls' = ncalls + 1
    /\ UNCHANGED <<runs, processed, rawrows, quarantined, folder_vars, side_vars>>

NextRow == CallProcessBookingRow

SpecRow == InitRow /\ [][NextRow]_vars

\* ------------------------------------------------------- file discovery
\* extract_file_date found no date in the filename.
NoDate == 0

\* Times are counted in times of day: day * TodsPerDay + time of day.
CreatedTimes == {d * TodsPerDay + h : d \in 1..MaxDay, h \in 0..(TodsPerDay - 1)}

\* extract_data_time_from_file: the date in the filename (name_day, NoDate
\* when the name holds none) with the time of day of the creation time;
\* the creation time when the name holds no date.
extract_data_time_from_file(name_day, file_created_time) ==
    IF name_day # NoDate
    THEN name_day * TodsPerDay + (file_created_time % TodsPerDay)
    ELSE file_created_time

\* Variant of the sort at line 103 that keeps the provider's order.
ProviderOrder(files) == files

\* list.sort(key=data_time): a stable sort, here by insertion.
RECURSIVE SortByDataTime(_)
SortByDataTime(files) ==
    IF files = <<>> THEN <<>>
    ELSE LET x == files[Len(files)]
             sorted == SortByDataTime(SubSeq(files, 1, Len(files) - 1))
             k == Cardinality({i \in 1..Len(sorted) : sorted[i].data_time <= x.data_time})
         IN SubSeq(sorted, 1, k) \o <<x>> \o SubSeq(sorted, k + 1, Len(sorted))

\* Variant of the filter at lines 78-85 that excludes no file.
NoProcessedFileIds(folder) == {}

\* Variant of the filter at lines 78-85 that works as a high-water mark: every
\* file listed no later than a processed file of the folder is excluded.
ProcessedUpToLatest(folder) ==
    {drive[i].file_id : i \in {j \in 1..Len(drive) :
        /\ drive[j].folder = folder
        /\ \E pf \in processed : pf.folder = folder /\ pf.file_id >= drive[j].file_id}}

\* The file_ids of the ProcessedFile rows of the folder.
ProcessedFileIds(folder) == {pf.file_id : pf \in {q \in processed : q.folder = folder}}

\* discover_new_files: the provider's files of the folder in creation order,
\* without those already processed for the folder, sorted by data_time.
discover_new_files(folder) ==
    LET IsNew(f) == f.folder = folder /\ f.file_id \notin ProcessedFileIds(folder)
        listed == SelectSeq(drive, IsNew)
        new_files == [i \in 1..Len(listed) |->
            [file_id |-> listed[i].file_id,
             created_time |-> listed[i].created_time,
             data_time |-> extract_data_time_from_file(listed[i].name_day, listed[i].created_time)]]
    IN SortByDataTime(new_files)

\* A file appears in a folder of the provider, created no earlier than the
\* files already there.
Upload(folders, created_times, name_days) ==
    /\ Len(drive) < MaxFiles
    /\ \E folder \in folders, created \in created_times, name_day \in name_days :
        /\ \A i \in 1..Len(drive) : drive[i].created_time <= created
        /\ drive' = Append(drive, [file_id |-> Len(drive) + 1, folder |-> folder, created_time |-> created, name_day |-> name_day])
    /\ UNCHANGED <<tables, snapshot, pc, queue, ing, results, ended, ncalls, last, history, side_vars>>

\* ------------------------------------------------------------ process_folder
\* process_folder up to its loop: discovery (an empty list when the provider
\* call fails), and the early return when nothing was discovered.
ProcessFolderStart ==
    /\ pc = "idle"
    /\ \E folder \in 1..MaxFolders, provider_ok \in BOOLEAN :
        LET new_files == IF provider_ok THEN discover_new_files(folder) ELSE <<>>
        IN /\ results' = [NoResults EXCEPT !.folder_id = folder,
                                            !.files_discovered = Len(new_files),
                                            !.message = IF new_files = <<>> THEN "No new files found" ELSE ""]
           /\ queue' = new_files
           /\ pc' = IF new_files = <<>> THEN "idle" ELSE "folder"
    /\ ended' = NoEnd
    /\ last' = NoCall
    /\ UNCHANGED <<tables, snapshot, drive, ing, ncalls, history, side_vars>>

\* process_folder returns its results after the last file.
ProcessFolderReturn ==
    /\ pc = "folder"
    /\ queue = <<>>
    /\ pc' = "idle"
    /\ UNCHANGED <<tables, snapshot, drive, queue, ing, results, ended, ncalls, last, history, side_vars>>

\* --------------------------------------------------------------- ingest_file
CurrentTables == [bookings |-> bookings, conflicts |-> conflicts, runs |-> runs, processed |-> processed, rawrows |-> rawrows, quarantined |-> quarantined]

\* Variant of the transaction that keeps what the call wrote.
NotRolledBack(before, now) == now

\* @transaction.atomic on an exception: the tables as they were when the
\* call began.
RolledBack(before, now) == before

\* Variant of the handler that records nothing.
FileFailedUnrecorded(res, file_id) == res

\* process_folder's handler of an exception of ingest_file.
FileFailed(res, file_id) ==
    [res EXCEPT !.files_failed = @ + 1, !.errors = Append(@, file_id)]

\* ingest_file raises: the transaction is rolled back and process_folder
\* records the failure and goes on with the next file.
Abort(now) ==
    LET kept == RolledBack(snapshot, now)
    IN /\ bookings' = kept.bookings
       /\ conflicts' = kept.conflicts
       /\ runs' = kept.runs
       /\ processed' = kept.processed
       /\ rawrows' = kept.rawrows
       /\ quarantined' = kept.quarantined
       /\ ended' = [outcome |-> "raised", file_id |-> ing.file_id, folder |-> ing.folder,
                    invalid |-> ing.invalid, errors |-> ing.errors, run |-> ing.run, before |-> snapshot]
       /\ results' = FileFailed(results, ing.file_id)
       /\ snapshot' = NoTables
       /\ ing' = NoIngest
       /\ queue' = Tail(queue)
       /\ pc' = "folder"

\* IngestionRun.objects.create(..., status='running')
NewRun(folder, file_info) ==
    [id |-> <<folder, file_info.file_id>>, folder |-> folder, file_id |-> file_info.file_id,
     data_time |-> file_info.data_time, status |-> "running", completed_at |-> None,
     rows_processed |-> 0, rows_inserted |-> 0, rows_updated |-> 0, rows_ignored |-> 0,
     rows_quarantined |-> 0, conflicts_detected |-> 0]

\* Variant of the table without unique_together (folder, file_id).
RunExistsNever(folder, file_id) == FALSE

\* unique_together (folder, file_id) of IngestionRun: a row for the pair is
\* there already, so that creating another is an IntegrityError.
RunExists(folder, file_id) == \E r \in runs : r.folder = folder /\ r.file_id = file_id

\* ingest_file from its entry to the row loop: the run is created (when the
\* pair has a run already the create raises, outside the try: ingest_file
\* raises and process_folder records the failure), the sheet is extracted
\* (rows are read one by one below; a sheet that is empty or cannot be read
\* gives no rows and one error that is a plain string) and the run is saved
\* with rows_processed.
IngestBegin ==
    /\ pc = "folder"
    /\ queue # <<>>
    /\ LET file_info == Head(queue)
           folder == results.folder_id
           created == NewRun(folder, file_info)
           attempted == [results EXCEPT !.attempted = Append(@, [file_id |-> file_info.file_id, data_time |-> file_info.data_time])]
       IN IF RunExists(folder, file_info.file_id)
          THEN /\ ended' = [outcome |-> "raised", file_id |-> file_info.file_id, folder |-> folder,
                            invalid |-> 0, errors |-> <<>>, run |-> created, before |-> CurrentTables]
               /\ results' = FileFailed(attempted, file_info.file_id)
               /\ queue' = Tail(queue)
               /\ UNCHANGED <<tables, snapshot, pc, ing>>
          ELSE /\ \E n \in 0..MaxRows, sheet_error \in {"", "Sheet is empty", "Failed to process sheet"} :
                    /\ sheet_error # "" => n = 0
                    /\ LET errors == IF sheet_error = "" THEN <<>> ELSE <<[text |-> TRUE, error |-> sheet_error, row |-> 0]>>
                           run == [created EXCEPT !.rows_processed = n + Len(errors)]
                       IN /\ runs' = runs \cup {run}
                          /\ ing' = [folder |-> folder, file_id |-> file_info.file_id, run |-> run,
                                     left |-> n, row_index |-> 1, errors |-> errors, invalid |-> 0, seen |-> {}]
               /\ results' = attempted
               /\ snapshot' = CurrentTables
               /\ pc' = "rows"
               /\ UNCHANGED <<bookings, conflicts, processed, rawrows, quarantined, queue, ended>>
    /\ UNCHANGED <<drive, ncalls, last, history, side_vars>>

\* Variant of the counters in which a conflict is counted as an update only.
CountedWithoutConflicts(run, action) ==
    CASE action = "inserted" -> [run EXCEPT !.rows_inserted = @ + 1]
      [] action \in {"updated", "conflict"} -> [run EXCEPT !.rows_updated = @ + 1]
      [] action = "ignored" -> [run EXCEPT !.rows_ignored = @ + 1]
      [] OTHER -> run

\* Variant of the counters in which a conflict is not counted as an update.
CountedConflictOnly(run, action) ==
    CASE action = "inserted" -> [run EXCEPT !.rows_inserted = @ + 1]
      [] action = "updated" -> [run EXCEPT !.rows_updated = @ + 1]
      [] action = "ignored" -> [run EXCEPT !.rows_ignored = @ + 1]
      [] action = "conflict" -> [run EXCEPT !.conflicts_detected = @ + 1]
      [] OTHER -> run

\* The counters of the run after one row's action.
Counted(run, action) ==
    CASE action = "inserted" -> [run EXCEPT !.rows_inserted = @ + 1]
      [] action = "updated" -> [run EXCEPT !.rows_updated = @ + 1]
      [] action = "ignored" -> [run EXCEPT !.rows_ignored = @ + 1]
      [] action = "conflict" -> [run EXCEPT !.conflicts_detected = @ + 1, !.rows_updated = @ + 1]
      [] OTHER -> run

\* One sheet row: normalized and validated by the extraction; an invalid row
\* joins the extraction errors; a valid row gets its RawRow and goes through
\* process_booking_row.  When the database raises for the row, the row's
\* handler cannot write its QuarantinedRow inside the broken transaction, and
\* neither can the handler of ingest_file save the run: ingest_file raises.
IngestRow(rows) ==
    /\ pc = "rows"
    /\ ing.left > 0
    /\ \E raw \in rows :
        LET normalized == normalize_row_data(raw, ing.row_index)
            error_msg == validate_booking_row(normalized)
            res == process_booking_row(bookings, conflicts, normalized, ing.run)
            now == [CurrentTables EXCEPT !.bookings = res.bookings, !.conflicts = res.conflicts]
        IN IF error_msg # ""
           THEN /\ ing' = [ing EXCEPT !.left = @ - 1, !.row_index = @ + 1, !.invalid = @ + 1,
                                      !.errors = Append(@, [text |-> FALSE, error |-> error_msg, row |-> ing.row_index + 1])]
                /\ UNCHANGED <<tables, snapshot, pc, queue, results, ended, last>>
           ELSE /\ last' = CallRecord(normalized, ing.run, res, bookings, conflicts)
                /\ IF res.action = "raise" \/ (\E rr \in rawrows : rr.file_id = ing.file_id /\ rr.row_index = ing.row_index)
                   THEN Abort(now)
                   ELSE /\ rawrows' = rawrows \cup {[file_id |-> ing.file_id, row_index |-> ing.row_index, ingestion_run |-> ing.run.id]}
                        /\ bookings' = res.bookings
                        /\ conflicts' = res.conflicts
                        /\ ing' = [ing EXCEPT !.left = @ - 1, !.row_index = @ + 1, !.run = Counted(@, res.action),
                                                   !.seen = @ \cup {normalized["booking_number"]}]
                        /\ UNCHANGED <<runs, processed, quarantined, snapshot, pc, queue, results, ended>>
    /\ UNCHANGED <<drive, ncalls, history, side_vars>>

\* The QuarantinedRow rows of the extraction errors.
QuarantineOf(errors, file_id, run_id) ==
    {[file_id |-> file_id, row_index |-> errors[i].row, error_message |-> errors[i].error, ingestion_run |-> run_id] : i \in 1..Len(errors)}

\* Variant of the completion that leaves the run as it was created.
CompletedRunning(run, errors) == run

\* The run as saved at the end of ingest_file.
Completed(run, errors) ==
    LET q == run.rows_quarantined + Len(errors)
    IN [run EXCEPT !.rows_quarantined = q,
                   !.status = IF q = 0 THEN "completed" ELSE "partial",
                   !.completed_at = "set"]

\* The run as saved by the handler of an exception escaping ingest_file.
Failed(run) == [run EXCEPT !.status = "failed", !.completed_at = "set"]

\* process_folder after an ingest_file that returned.
FileProcessed(res, run) ==
    [res EXCEPT !.files_processed = @ + 1, !.ingestion_runs = Append(@, run)]

\* ingest_file after the row loop: the extraction errors are quarantined (an
\* error that is a plain string has no .get: the handler saves the run as
\* failed and ingest_file raises), the file is marked processed (file_id is
\* unique), the run is completed and the transaction commits.
IngestFinish ==
    /\ pc = "rows"
    /\ ing.left = 0
    /\ IF \E i \in 1..Len(ing.errors) : ing.errors[i].text
       THEN Abort([CurrentTables EXCEPT !.runs = {r \in runs : r.id # ing.run.id} \cup {Failed(ing.run)}])
       ELSE IF \E pf \in processed : pf.file_id = ing.file_id
       THEN Abort(CurrentTables)
       ELSE LET run == Completed(ing.run, ing.errors)
            IN /\ quarantined' = quarantined \cup QuarantineOf(ing.errors, ing.file_id, run.id)
               /\ processed' = processed \cup {[file_id |-> ing.file_id, folder |-> ing.folder, ingestion_run |-> run.id]}
               /\ runs' = {r \in runs : r.id # run.id} \cup {run}
               /\ ended' = [outcome |-> "returned", file_id |-> ing.file_id, folder |-> ing.folder,
                            invalid |-> ing.invalid, errors |-> ing.errors, run |-> run, before |-> snapshot]
               /\ results' = FileProcessed(results, run)
               /\ snapshot' = NoTables
               /\ ing' = NoIngest
               /\ queue' = Tail(queue)
               /\ pc' = "folder"
               /\ UNCHANGED <<bookings, conflicts, rawrows>>
    /\ UNCHANGED <<drive, ncalls, last, history, side_vars>>

\* The sheet rows Spec explores: BaseRow, the rows that differ from it in
\* the booking number, the status, the first name or the arrival date, the
\* row with a whole-number deposit, and the row without its trailing cell.
PipelineRows ==
    {r \in SheetRows : \/ r \in {WholeRow, SubSeq(BaseRow, 1, Len(BaseRow) - 1)}
                       \/ Len(r) = Len(BaseRow) /\ \A i \in 1..Len(r) : r[i] # BaseRow[i] => i \in {1, 2, 3, 5}}

\* Spec: sheets of PipelineRows, in files of one folder that are created on
\* the first day and whose names hold no date.
Next ==
    \/ Upload({1}, {t \in CreatedTimes : t < 2 * TodsPerDay}, {NoDate})
    \/ ProcessFolderStart
    \/ IngestBegin
    \/ IngestRow(PipelineRows)
    \/ IngestFinish
    \/ ProcessFolderReturn

Spec == Init /\ [][Next]_vars

\* SpecFolder: files of any folder, creation time and filename date, holding
\* sheets of BaseRow and of the row without its trailing cell.
NextFolder ==
    \/ Upload(1..MaxFolders, CreatedTimes, {NoDate} \cup 1..MaxDay)
    \/ ProcessFolderStart
    \/ IngestBegin
    \/ IngestRow({BaseRow, SubSeq(BaseRow, 1, Len(BaseRow) - 1)})
    \/ IngestFinish
    \/ ProcessFolderReturn

SpecFolder == Init /\ [][NextFolder]_vars

\* The rows of the sheets SpecShared explores: BaseRow, the same booking
\* cancelled, and the row without its trailing cell.
SharedRows == {BaseRow, [BaseRow EXCEPT ![2] = "Cancelled"], SubSeq(BaseRow, 1, Len(BaseRow) - 1)}

\* SpecShared: files of several folders whose sheets hold the same booking
\* number.
NextShared ==
    \/ Upload(1..MaxFolders, {t \in CreatedTimes : t < 2 * TodsPerDay}, {NoDate})
    \/ ProcessFolderStart
    \/ IngestBegin
    \/ IngestRow(SharedRows)
    \/ IngestFinish
    \/ ProcessFolderReturn

SpecShared == Init /\ [][NextShared]_vars

\* Booking.objects.filter(ingestion_run__folder=folder): the bookings
\* attributed to the folder.
FolderBookings(bk, folder) == {b \in bk : b["ingestion_run"][1] = folder}

\* ------------------------------------------------- two ingestion triggers
\* The rows of the sheets SpecRace explores: a valid row, the row without
\* its trailing cell and a row without booking number.
RaceRows == {BaseRow, SubSeq(BaseRow, 1, Len(BaseRow) - 1), [BaseRow EXCEPT ![1] = ""]}

\* The running trigger is suspended outside ingest_file and the other one
\* runs on from where it was.  ingest_file is one database transaction;
\* two transactions on the same (folder, file_id) serialise on the unique
\* index of IngestionRun, the later insert waiting for the earlier
\* transaction to end, so the triggers interleave between ingest_file calls.
Switch ==
    /\ pc \in {"idle", "folder"}
    /\ rival' = [pc |-> pc, queue |-> queue, results |-> results]
    /\ pc' = rival.pc
    /\ queue' = rival.queue
    /\ results' = rival.results
    /\ UNCHANGED <<tables, snapshot, drive, ing, ended, ncalls, last, history>>
    /\ UNCHANGED <<poll, watch_vars, user_vars, auth_vars, desk_vars, sheet_vars>>

\* SpecRace: two triggers (a poll and a webhook, two polls) on one folder.
NextRace ==
    \/ Upload({1}, {t \in CreatedTimes : t < 2 * TodsPerDay}, {NoDate})
    \/ ProcessFolderStart
    \/ IngestBegin
    \/ IngestRow(RaceRows)
    \/ IngestFinish
    \/ ProcessFolderReturn
    \/ Switch

SpecRace == Init /\ [][NextRace]_vars

\* ------------------------------------------------------------ poll_bookings
\* Command.handle up to its loop: --max-iterations is absent (None) or an
\* integer, --dry-run is a flag.
PollHandle ==
    /\ poll.pc = "off"
    /\ \E given \in BOOLEAN, n \in 0..MaxIterations, dry_run \in BOOLEAN :
        /\ ~given => n = 0
        /\ poll' = [NoPoll EXCEPT !.pc = "loop", !.given = given, !.max_iterations = n, !.dry_run = dry_run]
    /\ UNCHANGED <<pipeline_vars, rival, watch_vars, user_vars, auth_vars, desk_vars, sheet_vars>>

\* `if max_iterations and ...`: None and 0 are falsy.
Limited(p) == p.given /\ p.max_iterations # 0

\* One pass of the while loop: the counter, the first limit test, the
\* polling under its try/except (an exception is logged), the second limit
\* test, then the sleep.
PollIteration ==
    /\ poll.pc = "loop"
    /\ poll.iteration < MaxPolls
    /\ LET iteration == poll.iteration + 1
       IN IF Limited(poll) /\ iteration > poll.max_iterations
          THEN poll' = [poll EXCEPT !.iteration = iteration, !.pc = "done"]
          ELSE \E raises \in BOOLEAN :
                poll' = [poll EXCEPT !.iteration = iteration,
                                     !.polled = @ + 1,
                                     !.logged = IF raises THEN @ + 1 ELSE @,
                                     !.pc = IF Limited(poll) /\ iteration >= poll.max_iterations THEN "done" ELSE "sleep"]
    /\ UNCHANGED <<pipeline_vars, rival, watch_vars, user_vars, auth_vars, desk_vars, sheet_vars>>

\* time.sleep(interval) returns.
PollWake ==
    /\ poll.pc = "sleep"
    /\ poll' = [poll EXCEPT !.pc = "loop"]
    /\ UNCHANGED <<pipeline_vars, rival, watch_vars, user_vars, auth_vars, desk_vars, sheet_vars>>

\* KeyboardInterrupt during the loop.
PollInterrupt ==
    /\ poll.pc \in {"loop", "sleep"}
    /\ poll' = [poll EXCEPT !.pc = "done", !.interrupted = TRUE]
    /\ UNCHANGED <<pipeline_vars, rival, watch_vars, user_vars, auth_vars, desk_vars, sheet_vars>>

NextPoll == PollHandle \/ PollIteration \/ PollWake \/ PollInterrupt

SpecPoll == Init /\ [][NextPoll]_vars

\* ------------------------------------------------- setup_google_drive_watch
\* Variant of the lookup that finds no active watch.
ActiveWatchNever(folder_id, user) == FALSE

\* GoogleDriveWatchConfig.objects.filter(folder=, user=, is_active=True).first()
ActiveWatch(folder_id, user) ==
    \E w \in watches : w.folder = folder_id /\ w.user = user /\ w.is_active

\* unique_together (folder, user): a row for the pair is there already.
WatchExists(folder_id, user) ==
    \E w \in watches : w.folder = folder_id /\ w.user = user

\* setup_google_drive_watch: the response status and the tables after one
\* call.  folder_id 0 is a request without folder_id; validation is what
\* validate_folder does ("ok", "missing" for None, "raise"); watch_result is
\* whether setup_watch returned a descriptor.
setup_google_drive_watch ==
    \E user \in 1..MaxUsers, folder_id \in 0..MaxFolders, validation \in {"ok", "missing", "raise"}, watch_result \in BOOLEAN :
        LET status ==
                IF folder_id = 0 THEN 400
                ELSE IF validation = "missing" THEN 404
                ELSE IF validation = "raise" THEN 500
                ELSE IF ActiveWatch(folder_id, user) THEN 409
                ELSE IF ~watch_result THEN 500
                ELSE IF WatchExists(folder_id, user) THEN 500
                ELSE 201
        IN /\ watched_folders' = IF folder_id # 0 /\ validation = "ok"
                                 THEN watched_folders \cup {folder_id}
                                 ELSE watched_folders
           /\ watches' = IF status = 201
                         THEN watches \cup {[folder |-> folder_id, user |-> user, is_active |-> TRUE]}
                         ELSE watches
           /\ watch_call' = [user |-> user, folder_id |-> folder_id, validation |-> validation, status |-> status, before |-> watches]
           /\ UNCHANGED <<pipeline_vars, rival, poll, user_vars, auth_vars, desk_vars, sheet_vars>>

\* A superuser edits the active flag of a watch configuration in the admin.
AdminSetActive ==
    /\ \E w \in watches, active \in BOOLEAN :
        watches' = (watches \ {w}) \cup {[w EXCEPT !.is_active = active]}
    /\ watch_call' = NoWatchCall
    /\ UNCHANGED <<pipeline_vars, rival, poll, watched_folders, user_vars, auth_vars, desk_vars, sheet_vars>>

NextWatch == setup_google_drive_watch \/ AdminSetActive

SpecWatch == Init /\ [][NextWatch]_vars

\* ------------------------------------------------------ patient intake flow
\* A username is the sequence of its characters; an email is its local part
\* and its domain.
Locals == {<<"a">>}

Domains == {"x.com", "X.com", "y.org", "z.net"}

Emails == [local : Locals, domain : Domains]

Usernames == {<<"a">>, <<"a", "1">>, <<"a", "2">>, <<"a", "3">>}

\* BaseUserManager.normalize_email, called by create_user: the domain part
\* in lower case.
normalize_email(email) ==
    [email EXCEPT !.domain = IF @ = "X.com" THEN "x.com" ELSE @]

\* str(counter) for the counters reached.
Str(counter) == <<(<<"1", "2", "3", "4", "5", "6", "7", "8", "9">>)[counter]>>

\* The while loop of create_patient_user: base_username, then base_username
\* followed by 1, 2, ... until no User has the username.
RECURSIVE FreeUsername(_, _, _, _)
FreeUsername(username, base_username, counter, taken) ==
    IF username \in taken
    THEN FreeUsername(base_username \o Str(counter), base_username, counter + 1, taken)
    ELSE username

\* PatientQuestionnaire.objects.create(user=user): every answer empty.
EmptyQuestionnaire(username) ==
    [user |-> username, gender |-> None, date_of_birth |-> None, has_mhcp |-> FALSE, is_complete |-> FALSE, completed_at |-> 0]

\* create_patient_user with an email of the set emails: fields_given is
\* whether firstName, lastName, phone and password are all there.
create_patient_user(emails) ==
    /\ \E email \in emails, fields_given \in BOOLEAN :
        LET username == FreeUsername(email.local, email.local, 1, {u.username : u \in users})
            stored == normalize_email(email)
            status == IF ~fields_given THEN 400
                      ELSE IF \E u \in users : u.email = email THEN 400
                      ELSE IF \E u \in users : u.email = stored THEN 500
                      ELSE 200
        IN /\ users' = IF status = 200 THEN users \cup {[username |-> username, email |-> stored]} ELSE users
           /\ questionnaires' = IF status = 200 THEN questionnaires \cup {EmptyQuestionnaire(username)} ELSE questionnaires
           /\ user_call' = [status |-> status, email |-> email, before |-> users, qbefore |-> questionnaires]
    /\ q_call' = NoQCall
    /\ UNCHANGED <<pipeline_vars, rival, poll, watch_vars, auth_vars, desk_vars, sheet_vars, clock>>

\* SignUpView: an account made by the sign-up form, with a username of the
\* user's choice and no questionnaire.
SignUp(usernames, emails) ==
    /\ \E username \in usernames, email \in emails :
        /\ \A u \in users : u.username # username /\ u.email # normalize_email(email)
        /\ users' = users \cup {[username |-> username, email |-> normalize_email(email)]}
    /\ user_call' = NoUserCall
    /\ q_call' = NoQCall
    /\ UNCHANGED <<pipeline_vars, rival, poll, watch_vars, auth_vars, desk_vars, sheet_vars, questionnaires, clock>>

\* The request bodies of update_questionnaire explored.
Payloads ==
    {[gender |-> "female"],
     [gender |-> "male", hasMhcp |-> "yes"],
     [hasMhcp |-> "no"],
     [dateOfBirth |-> "01/02/1990"],
     [dateOfBirth |-> "1990-02-01"],
     [isComplete |-> FALSE],
     [isComplete |-> TRUE],
     [gender |-> "female", isComplete |-> TRUE]}

\* datetime.strptime(dob_str, '%d/%m/%Y').date(), as str(); "" when it raises.
ParseDateOfBirth(dob_str) ==
    IF dob_str = "01/02/1990" THEN "1990-02-01" ELSE ""

\* The questionnaire after the assignments of update_questionnaire.
UpdatedQuestionnaire(questionnaire, data, now) ==
    LET Has(k) == k \in DOMAIN data
    IN [questionnaire EXCEPT
           !.gender = IF Has("gender") THEN data["gender"] ELSE @,
           !.date_of_birth = IF Has("dateOfBirth") /\ ParseDateOfBirth(data["dateOfBirth"]) # ""
                             THEN ParseDateOfBirth(data["dateOfBirth"]) ELSE @,
           !.has_mhcp = IF Has("hasMhcp") THEN data["hasMhcp"] = "yes" ELSE @,
           !.is_complete = IF Has("isComplete") /\ data["isComplete"] THEN TRUE ELSE @,
           !.completed_at = IF Has("isComplete") /\ data["isComplete"] THEN now ELSE @]

\* update_questionnaire by an anonymous caller (<<>>, answered 401) or by a
\* logged-in user, whose questionnaire is fetched or created, updated and
\* saved.
update_questionnaire ==
    /\ \E caller \in {<<>>} \cup {u.username : u \in users}, data \in Payloads :
        IF caller = <<>>
        THEN /\ q_call' = [NoQCall EXCEPT !.status = 401]
             /\ UNCHANGED questionnaires
        ELSE LET found == {q \in questionnaires : q.user = caller}
                 questionnaire == IF found = {} THEN EmptyQuestionnaire(caller) ELSE CHOOSE q \in found : TRUE
                 saved == UpdatedQuestionnaire(questionnaire, data, clock)
                 repeated == q_call.status = 200 /\ q_call.caller = caller /\ q_call.data = data
             IN /\ questionnaires' = (questionnaires \ found) \cup {saved}
                /\ q_call' = [status |-> 200, caller |-> caller, data |-> data,
                              before |-> questionnaire, after |-> saved,
                              repeated |-> repeated,
                              once |-> IF repeated THEN q_call.after ELSE <<>>]
    /\ user_call' = NoUserCall
    /\ UNCHANGED <<pipeline_vars, rival, poll, watch_vars, auth_vars, desk_vars, sheet_vars, users, clock>>

\* Time passes.
Tick ==
    /\ clock < MaxClock
    /\ clock' = clock + 1
    /\ UNCHANGED <<pipeline_vars, rival, poll, watch_vars, auth_vars, desk_vars, sheet_vars, users, questionnaires, user_call, q_call>>

\* SpecUsers: accounts made by the intake flow and by the sign-up form.
NextUsers == create_patient_user(Emails) \/ SignUp(Usernames, Emails)

SpecUsers == Init /\ [][NextUsers]_vars

\* SpecQuestionnaire: one account of each flow, and their questionnaires.
NextQuestionnaire ==
    \/ create_patient_user({[local |-> <<"a">>, domain |-> "x.com"]})
    \/ SignUp({<<"a", "1">>}, {[local |-> <<"a">>, domain |-> "y.org"]})
    \/ update_questionnaire
    \/ Tick

SpecQuestionnaire == Init /\ [][NextQuestionnaire]_vars

\* ------------------------------------------------------ interactive OAuth
\* The anti-forgery states flow.authorization_url hands out.
States == {"s1", "s2"}

other_vars == <<pipeline_vars, rival, poll, watch_vars, user_vars, desk_vars, sheet_vars>>

\* start_google_auth: 500 when credentials.json is missing, else a state is
\* stored in the session and the browser is redirected.
start_google_auth ==
    /\ \E session \in 1..MaxSessions, state \in States :
        IF ~credentials_file
        THEN /\ auth_call' = [NoAuthCall EXCEPT !.view = "start", !.session = session, !.status = 500,
                                                !.had_state = sessions[session] # "", !.token_before = token_file]
             /\ UNCHANGED <<sessions, started>>
        ELSE /\ sessions' = [sessions EXCEPT ![session] = state]
             /\ started' = started \cup {session}
             /\ auth_call' = [NoAuthCall EXCEPT !.view = "start", !.session = session, !.status = 302,
                                                !.had_state = sessions[session] # "", !.token_before = token_file]
    /\ UNCHANGED <<token_file, credentials_file, other_vars>>

\* Variant of the test that lets a session without state through.
MissingStateNever(state) == FALSE

\* `if not state`: the session holds no state (None) or an empty one.
MissingState(state) == state = ""

\* google_auth_callback: 400 without a stored state; else the flow is built
\* from credentials.json (outside the try: a missing file is an unhandled
\* error, 500), the token is fetched (fetched is whether fetch_token
\* succeeds; a failure is answered 400) and the credentials are written to
\* token.pickle.
google_auth_callback ==
    /\ token_file < MaxTokenWrites
    /\ \E session \in 1..MaxSessions, fetched \in BOOLEAN :
        LET written == ~MissingState(sessions[session]) /\ credentials_file /\ fetched
        IN /\ token_file' = IF written THEN token_file + 1 ELSE token_file
           /\ auth_call' = [NoAuthCall EXCEPT !.view = "callback", !.session = session,
                                              !.status = IF written THEN 200
                                                         ELSE IF MissingState(sessions[session]) THEN 400
                                                         ELSE IF ~credentials_file THEN 500
                                                         ELSE 400,
                                              !.had_state = sessions[session] # "", !.token_before = token_file]
    /\ UNCHANGED <<sessions, started, credentials_file, other_vars>>

\* auth_status: whether token.pickle exists.
auth_status ==
    /\ auth_call' = [NoAuthCall EXCEPT !.view = "status", !.status = 200,
                                       !.authenticated = token_file # 0, !.token_before = token_file]
    /\ UNCHANGED <<sessions, started, token_file, credentials_file, other_vars>>

\* The session is flushed (logout, expiry).
SessionFlush ==
    /\ \E session \in 1..MaxSessions :
        /\ sessions[session] # ""
        /\ sessions' = [sessions EXCEPT ![session] = ""]
        /\ started' = started \ {session}
    /\ auth_call' = NoAuthCall
    /\ UNCHANGED <<token_file, credentials_file, other_vars>>

\* An operator removes token.pickle.
TokenRemoved ==
    /\ token_file # 0
    /\ token_file' = 0
    /\ auth_call' = NoAuthCall
    /\ UNCHANGED <<sessions, started, credentials_file, other_vars>>

\* An operator installs or removes credentials.json.
CredentialsChanged ==
    /\ credentials_file' = ~credentials_file
    /\ auth_call' = NoAuthCall
    /\ UNCHANGED <<sessions, started, token_file, other_vars>>

NextAuth ==
    \/ start_google_auth
    \/ google_auth_callback
    \/ auth_status
    \/ SessionFlush
    \/ TokenRemoved
    \/ CredentialsChanged

SpecAuth == Init /\ [][NextAuth]_vars

\* --------------------------------------------- guest extra night workflow
\* arrive_date / depart_date of a booking that has none (null=True).
NullDay == 0 - 1

\* `[:20]`: the page lists at most the next 20 eligible bookings.
ListLimit == 20

\* The offer windows T-14 and T-1.
OfferWindows == {14, 1}

\* Arrival days, lengths of stay and statuses of the bookings in the ledger.
ArriveDates == {4, 11, 18, 19}
Nights == {2, 3}
BookingStatuses == {"Booking", "Confirmed", "Cancelled"}

\* depart_date__week_day=1: the day is a Sunday.
IsSunday(day) == day % 7 = 0

\* The filter of eligible_guests: both dates set, Sunday checkout, arrival
\* today or later, an active status, and depart_date - arrive_date > 2.
Eligible(booking, day) ==
    /\ booking.arrive_date # NullDay
    /\ booking.depart_date # NullDay
    /\ IsSunday(booking.depart_date)
    /\ booking.arrive_date >= day
    /\ booking.status \in {"Booking", "Confirmed"}
    /\ booking.depart_date - booking.arrive_date > 2

\* order_by('arrive_date')[:20]: the choices of the first ListLimit bookings
\* by arrival (the database breaks ties between equal arrivals).
FirstByArrival(candidates) ==
    {listed \in SUBSET candidates :
        /\ Cardinality(listed) = IF Cardinality(candidates) <= ListLimit THEN Cardinality(candidates) ELSE ListLimit
        /\ \A b \in listed : \A c \in candidates \ listed : b.arrive_date <= c.arrive_date}

\* Variant of the status in which the trigger day itself counts as passed.
WindowStatusNeverReady(days_until_checkin, N) ==
    IF days_until_checkin > N THEN "countdown" ELSE "past"

\* The status of one offer window: the if / elif / else of the T-1 loop
\* (N = 1) and of the T-14 loop (N = 14).
WindowStatus(days_until_checkin, N) ==
    IF days_until_checkin = N THEN "ready"
    ELSE IF days_until_checkin > N THEN "countdown"
    ELSE "past"

\* One entry of workflow_guests with its all_t1_guests and all_t14_guests status.
WorkflowGuest(booking, day) ==
    LET days_until_checkin == booking.arrive_date - day
    IN [booking |-> booking,
        days_until_checkin |-> days_until_checkin,
        t14_eligible |-> days_until_checkin = 14,
        t1_eligible |-> days_until_checkin = 1,
        in_window |-> (1 <= days_until_checkin /\ days_until_checkin <= 14),
        t1_status |-> WindowStatus(days_until_checkin, 1),
        t14_status |-> WindowStatus(days_until_checkin, 14)]

\* guest_extra_night_workflow: the error page when no folder is connected,
\* else the eligible bookings with their window statuses.
guest_extra_night_workflow ==
    /\ \E connected \in BOOLEAN :
        IF ~connected
        THEN /\ workflow' = [NoWorkflow EXCEPT !.rendered = TRUE, !.error = TRUE, !.today = today]
             /\ UNCHANGED offered
        ELSE \E eligible_guests \in FirstByArrival({b \in stays : Eligible(b, today)}) :
                LET workflow_guests == {WorkflowGuest(b, today) : b \in eligible_guests}
                IN /\ workflow' = [NoWorkflow EXCEPT !.rendered = TRUE, !.today = today,
                                                     !.workflow_guests = workflow_guests]
                   /\ offered' = offered \cup {g.booking : g \in {w \in workflow_guests : w.t14_status = "ready"}}
    /\ UNCHANGED <<today, stays, pipeline_vars, rival, poll, watch_vars, user_vars, auth_vars, sheet_vars>>

\* A booking of the caller enters the ledger of the connected folder.
BookStay ==
    /\ Cardinality(stays) < MaxStays
    /\ \E arrive_date \in ArriveDates \cup {NullDay}, nights \in Nights, status \in BookingStatuses :
        /\ arrive_date = NullDay => nights = 2
        /\ stays' = stays \cup {[arrive_date |-> arrive_date,
                                 depart_date |-> IF arrive_date = NullDay THEN NullDay ELSE arrive_date + nights,
                                 status |-> status]}
    /\ workflow' = NoWorkflow
    /\ UNCHANGED <<today, offered, pipeline_vars, rival, poll, watch_vars, user_vars, auth_vars, sheet_vars>>

\* Midnight passes.
NextDay ==
    /\ today < MaxToday
    /\ today' = today + 1
    /\ workflow' = NoWorkflow
    /\ UNCHANGED <<stays, offered, pipeline_vars, rival, poll, watch_vars, user_vars, auth_vars, sheet_vars>>

NextDesk == guest_extra_night_workflow \/ BookStay \/ NextDay

SpecDesk == Init /\ [][NextDesk]_vars

\* --------------------------------------------------------- header detection
nonsheet_vars == <<pipeline_vars, rival, poll, watch_vars, user_vars, auth_vars, desk_vars>>

\* Texts are sequences of one-character strings, so that substring tests,
\* prefixes and character classes are computed as Python computes them.
header_indicators == {<<"N", "o", ".">>, <<"S", "t", "a", "t", "u", "s">>, <<"N", "a", "m", "e">>, <<"S", "u", "r", "n", "a", "m", "e">>, <<"A", "r", "r", "i", "v", "e">>, <<"D", "e", "p", "a", "r", "t">>}

\* str(cell) of the cells a first row is made of.
HeaderCells == {<<"N", "o", ".">>,
                <<"S", "t", "a", "t", "u", "s">>,
                <<"F", "i", "r", "s", "t", " ", "N", "a", "m", "e">>,
                <<"S", "u", "r", "n", "a", "m", "e">>,
                <<"A", "r", "r", "i", "v", "e">>,
                <<"D", "e", "p", "a", "r", "t">>,
                <<"N", "o", ".", " ", "S", "t", "a", "t", "u", "s", " ", "N", "a", "m", "e">>,
                <<"2", "1", "4", "0", "7", "8">>,
                <<"n", "a", "m", "e">>,
                <<>>}

FirstRows == UNION {[1..n -> HeaderCells] : n \in 0..MaxCells}

\* `indicator in text`: Python's substring test.
Contains(text, indicator) ==
    \E i \in 1..(Len(text) - Len(indicator) + 1) : SubSeq(text, i, i + Len(indicator) - 1) = indicator

\* matches: the cells of the row that hold at least one indicator.
Matches(first_row) ==
    Cardinality({i \in 1..Len(first_row) : \E indicator \in header_indicators : Contains(first_row[i], indicator)})

\* detect_header_row: (0, False) without rows; else the first row is a header
\* when at least 3 of its cells match.
detect_header_row(rows) ==
    IF rows = <<>>
    THEN [header_row_index |-> 0, has_header |-> FALSE]
    ELSE LET has_header == Matches(rows[1]) >= 3
         IN [header_row_index |-> IF has_header THEN 0 ELSE 0 - 1, has_header |-> has_header]

CallDetectHeaderRow ==
    /\ \E rows \in {<<>>} \cup {<<first_row>> : first_row \in FirstRows} :
        LET answer == detect_header_row(rows)
        IN header_call' = [called |-> TRUE, rows |-> rows,
                           header_row_index |-> answer.header_row_index, has_header |-> answer.has_header]
    /\ UNCHANGED <<decimal_call, date_call, nonsheet_vars>>

NextHeader == CallDetectHeaderRow

SpecHeader == Init /\ [][NextHeader]_vars

\* ------------------------------------------------------------ parse_decimal
DigitChars == <<"0", "1", "2", "3", "4", "5", "6", "7", "8", "9">>

IsDigit(c) == \E n \in 1..Len(DigitChars) : DigitChars[n] = c

DigitValue(c) == (CHOOSE n \in 1..Len(DigitChars) : DigitChars[n] = c) - 1

\* int() of a text of digits (0 for the empty text).
RECURSIVE DigitsValue(_)
DigitsValue(text) ==
    IF text = <<>> THEN 0
    ELSE 10 * DigitsValue(SubSeq(text, 1, Len(text) - 1)) + DigitValue(text[Len(text)])

\* re.sub(r'[...]', '', text): the text without the characters of a class.
Without(text, class) == SelectSeq(text, LAMBDA c : c \notin class)

\* re.sub(r'[^\d\.\-]', '', text): the digits, points and minus signs of the text.
Numeric(text) == SelectSeq(text, LAMBDA c : IsDigit(c) \/ c \in {".", "-"})

ErrorCell == <<"#", "E", "R", "R", "O", "R", "!">>

\* The texts given to parse_decimal: an amount, with or without a minus sign,
\* a currency sign, a trailing blank and surrounding parentheses; and the
\* provider's error cell.
Amounts == {<<"8", "1", "0", ".", "4", "0">>, <<"8", "1", "0", ".", "4">>, <<"5">>, <<"5", ".">>, <<".", "5">>, <<"0">>, <<"1", "2">>, <<"1", ",", "2", "3", "4", ".", "5", "0">>, <<"1", ".", "2", ".", "3">>, <<"a", "b">>, <<>>}

DecimalTexts ==
    {ErrorCell} \cup
    {open \o sign \o currency \o amount \o blank \o close :
        open \in {<<>>, <<"(">>}, sign \in {<<>>, <<"-">>}, currency \in {<<>>, <<"$">>},
        amount \in Amounts, blank \in {<<>>, <<" ">>}, close \in {<<>>, <<")">>}}

\* Decimal(text) of a text of digits, points and minus signs: an optional
\* sign, then digits with at most one point and at least one digit; any
\* other text raises InvalidOperation (answered with NoDecimal here).
Decimal(text) ==
    LET negative == text # <<>> /\ text[1] = "-"
        unsigned == IF negative THEN Tail(text) ELSE text
        points == {i \in 1..Len(unsigned) : unsigned[i] = "."}
        point == IF points = {} THEN Len(unsigned) ELSE CHOOSE i \in points : TRUE
        digits == Without(unsigned, {"."})
    IN IF \/ \E i \in 1..Len(unsigned) : unsigned[i] = "-"
          \/ Cardinality(points) > 1
          \/ digits = <<>>
       THEN NoDecimal
       ELSE [none |-> FALSE, negative |-> negative,
             coefficient |-> DigitsValue(digits), places |-> Len(unsigned) - point]

\* `if cleaned.startswith('(') and cleaned.endswith(')'): cleaned = '-' + cleaned[1:-1]`
Parentheses(cleaned) ==
    IF cleaned # <<>> /\ cleaned[1] = "(" /\ cleaned[Len(cleaned)] = ")"
    THEN <<"-">> \o SubSeq(cleaned, 2, Len(cleaned) - 1)
    ELSE cleaned

\* parse_decimal: None for an empty text and for #ERROR!; else the text
\* without currency signs, commas and blanks, parentheses turned into a
\* leading minus, every character but digits, point and minus removed, and
\* the Decimal of what is left (None when nothing is left or it is no number).
parse_decimal(value) ==
    IF value = <<>> \/ value = ErrorCell
    THEN NoDecimal
    ELSE LET cleaned == Numeric(Parentheses(Without(value, {"$", ",", " "})))
         IN IF cleaned = <<>> THEN NoDecimal ELSE Decimal(cleaned)

CallParseDecimal ==
    /\ \E value \in DecimalTexts :
        decimal_call' = [called |-> TRUE, value |-> value, result |-> parse_decimal(value)]
    /\ UNCHANGED <<header_call, date_call, nonsheet_vars>>

NextDecimal == CallParseDecimal

SpecDecimal == Init /\ [][NextDecimal]_vars

\* --------------------------------------------------------------- parse_date
\* date(year, month, day): the date, or ValueError (NoDay here) when the
\* month has no such day.
IsLeap(year) == year % 4 = 0 /\ (year % 100 # 0 \/ year % 400 = 0)

DaysInMonth(year, month) ==
    IF month = 2 THEN (IF IsLeap(year) THEN 29 ELSE 28)
    ELSE IF month \in {4, 6, 9, 11} THEN 30 ELSE 31

Date(year, month, day) ==
    IF year \in 1..9999 /\ month \in 1..12 /\ day \in 1..DaysInMonth(year, month)
    THEN [none |-> FALSE, year |-> year, month |-> month, day |-> day]
    ELSE NoDay

\* date(1900, 1, 1) + timedelta(days=delta_days), for delta_days >= 0: the
\* proleptic Gregorian calendar, counted in 400-year eras from 0000-03-01.
DateAfterEpoch(delta_days) ==
    LET z == delta_days + 693901
        era == z \div 146097
        doe == z - era * 146097
        yoe == (doe - doe \div 1460 + doe \div 36524 - doe \div 146096) \div 365
        doy == doe - (365 * yoe + yoe \div 4 - yoe \div 100)
        mp == (5 * doy + 2) \div 153
        day == doy - (153 * mp + 2) \div 5 + 1
        month == IF mp < 10 THEN mp + 3 ELSE mp - 9
        year == yoe + era * 400 + (IF month <= 2 THEN 1 ELSE 0)
    IN [none |-> FALSE, year |-> year, month |-> month, day |-> day]

\* The numeric cell values explored: provider date serials, the threshold
\* itself, and the serials of 2025-03-10 and 2025-09-19.
Serials == (10000..10120) \cup {45726, 45919}

\* Cell values: a number n (kind "int"), the text str(n) of a number (kind
\* "str"), and a text DD/MM/YYYY (kind "dmy", n the day).
IntCell(n) == [kind |-> "int", n |-> n, month |-> 0, year |-> 0]

DateCells ==
    {IntCell(n) : n \in Serials}
    \cup {[kind |-> "dmy", n |-> day, month |-> month, year |-> 2025] : day \in {19, 31}, month \in {2, 9}}

\* str(value).strip(): a number becomes the text of its digits.
StrOf(value) == IF value.kind = "int" THEN [value EXCEPT !.kind = "str"] ELSE value

\* dateutil's parse(value_str, dayfirst=True) of a text of five or more
\* digits not shaped YYMMDD: the number is read as a year, which is out of
\* range (ValueError).
dateutil_parse(value) == NoDay

\* isinstance(value, (int, float)) and value > 10000
IsSerial(value) == value.kind = "int" /\ value.n > 10000

\* parse_date: a serial number is counted from 1900-01-01 less 2 days, a
\* text with slashes is read as DD/MM/YYYY, any other text goes to dateutil;
\* ValueError and TypeError are answered with None.
parse_date(value) ==
    IF IsSerial(value)
    THEN DateAfterEpoch(value.n - 2)
    ELSE IF value.kind = "dmy"
    THEN Date(value.year, value.month, value.n)
    ELSE dateutil_parse(value)

\* normalize_value of a date field: the value is turned into text, stripped,
\* and the text is given to parse_date.
normalize_date_value(value) == parse_date(StrOf(value))

\* normalize_value on a cell of a date column.
NormalizeDateCell ==
    /\ \E value \in DateCells :
        date_call' = [called |-> TRUE, via |-> "normalize_value", value |-> value,
                      result |-> normalize_date_value(value)]
    /\ UNCHANGED <<header_call, decimal_call, nonsheet_vars>>

\* parse_date called on the value itself.
CallParseDate ==
    /\ \E value \in DateCells \cup {StrOf(v) : v \in DateCells} :
        date_call' = [called |-> TRUE, via |-> "parse_date", value |-> value, result |-> parse_date(value)]
    /\ UNCHANGED <<header_call, decimal_call, nonsheet_vars>>

NextDate == NormalizeDateCell \/ CallParseDate

SpecDate == Init /\ [][NextDate]_vars

\* ================================================================ claims
\* The call recorded in last was made on a booking number that existed.
LastExisting == {e \in last.before : last.action # "none" /\ e["booking_number"] = last.row["booking_number"]}

\* The bookings stored under booking number bn.
Stored(bn) == {b \in bookings : b["booking_number"] = bn}

AppliedTo(bn) ==
    {i \in 1..Len(history) : history[i].booking_number = bn /\ history[i].action # "raise"}

MaxDataTime(bn) ==
    CHOOSE t \in {history[i].data_time : i \in AppliedTo(bn)} :
        \A i \in AppliedTo(bn) : history[i].data_time <= t

\* The first applied call on bn that carried the maximum data_time.
FirstWithMax(bn) ==
    CHOOSE i \in AppliedTo(bn) :
        /\ history[i].data_time = MaxDataTime(bn)
        /\ \A j \in AppliedTo(bn) : history[j].data_time = MaxDataTime(bn) => i <= j

C2_StoredIsLatest ==
    \A b \in bookings :
        LET bn == b["booking_number"]
        IN /\ AppliedTo(bn) # {}
           /\ b["source_file_time"] = MaxDataTime(bn)
           /\ \A f \in MutableAttributes :
                b[f] = DbValue(f, history[FirstWithMax(bn)].row[f])

C2_TimeNeverDecreases ==
    \A b \in bookings : \A c \in bookings' :
        c["booking_number"] = b["booking_number"] => c["source_file_time"] >= b["source_file_time"]

\* C2: latest file wins: for calls on one booking number in any order, the
\* stored source_file_time never decreases and after each call equals the
\* maximum data_time applied so far, and the stored mutable attributes are
\* those of the first applied row that carried that maximum.
C2_LatestFileWins == []C2_StoredIsLatest /\ [][C2_TimeNeverDecreases]_vars

\* C2 witness: a second, strictly newer row with another status was applied.
C2_Witness ==
    \E e \in LastExisting :
        /\ last.action = "updated"
        /\ e["status"] # last.row["status"]
        /\ Len(history) >= 2

\* C3: a call on an existing booking number whose data_time is less than or
\* equal to the stored source_file_time returns `ignored`, leaves every stored
\* field of the Booking unchanged and creates no BookingConflict row.
C3_NotNewerIgnored ==
    \A e \in LastExisting :
        last.run.data_time <= e["source_file_time"] =>
            /\ last.action = "ignored"
            /\ bookings = last.before
            /\ last.logged = {}

\* C3 witness: a row of equal data_time that disagrees with the stored
\* arrive_date was ignored.
C3_Witness ==
    \E e \in LastExisting :
        /\ last.action = "ignored"
        /\ last.run.data_time = e["source_file_time"]
        /\ last.row["arrive_date"] # e["arrive_date"]

\* The immutable fields in which the row of the last call holds the same
\* value as the existing booking e, or is silent.
SameFact(e, f) ==
    \/ f \notin DOMAIN last.row
    \/ last.row[f] = None
    \/ DbValue(f, last.row[f]) = e[f]

\* C4: a strictly later row for an existing booking that differs in
\* arrive_date and in status (and in no other immutable field) leaves
\* arrive_date unchanged, creates exactly one BookingConflict row, recording
\* the old and new arrive_date, stores the incoming status, and returns
\* `conflict`.
C4_ArriveConflict ==
    \A e \in LastExisting :
        (/\ last.run.data_time > e["source_file_time"]
         /\ last.row["arrive_date"] # None
         /\ last.row["arrive_date"] # e["arrive_date"]
         /\ last.row["status"] # e["status"]
         /\ last.row["dual_key"] # None
         /\ \A f \in (IMMUTABLE_FIELDS \cup ImmutableFacts) \ {"arrive_date"} : SameFact(e, f))
        => /\ last.action = "conflict"
           /\ \A b \in Stored(e["booking_number"]) :
                b["arrive_date"] = e["arrive_date"] /\ b["status"] = last.row["status"]
           /\ Cardinality(last.logged) = 1
           /\ \A c \in last.logged :
                /\ c.field_name = "arrive_date"
                /\ c.existing_value = e["arrive_date"]
                /\ c.incoming_value = last.row["arrive_date"]

\* C5: for a booking number not previously seen, process_booking_row creates
\* exactly one Booking with that number and returns `inserted`; there is
\* never more than one Booking per booking_number.
C5_InsertedOnce ==
    /\ \A b \in bookings : Cardinality(Stored(b["booking_number"])) = 1
    /\ (last.action # "none" /\ LastExisting = {}) =>
          /\ last.action = "inserted"
          /\ Cardinality(Stored(last.row["booking_number"])) = 1
          /\ \A b \in bookings \ Stored(last.row["booking_number"]) : b \in last.before

\* The id of the run of the ingest_file call recorded in ended.
EndedRunId == <<ended.folder, ended.file_id>>

\* An ingest_file call has ended and no other has begun.
CallEnded == pc # "rows" /\ ended.outcome # "none"

\* C6: a row that fails validation never creates or updates a Booking in
\* that ingestion; it yields one QuarantinedRow and adds one to the run's
\* rows_quarantined: when an ingest_file call that read invalid rows has
\* ended, the run exists and counts them, each has its QuarantinedRow, and no
\* more Bookings were written than the sheet had valid rows.
C6_InvalidRowQuarantined ==
    (CallEnded /\ ended.invalid > 0) =>
        /\ Cardinality({q \in quarantined : q.ingestion_run = EndedRunId}) = ended.invalid
        /\ \E r \in runs : r.id = EndedRunId /\ r.rows_quarantined = ended.invalid
        /\ Cardinality(bookings \ ended.before.bookings) <= ended.run.rows_processed - ended.invalid

\* C7: at the end of every ingest_file call that returns a run,
\* rows_processed = rows_inserted + rows_updated + rows_ignored +
\* rows_quarantined, conflicts_detected <= rows_updated, completed_at is set,
\* and status is `completed` iff rows_quarantined = 0, otherwise `partial`.
C7_RunCounters ==
    (CallEnded /\ ended.outcome = "returned") =>
        LET r == ended.run
        IN /\ r \in runs
           /\ r.rows_processed = r.rows_inserted + r.rows_updated + r.rows_ignored + r.rows_quarantined
           /\ r.conflicts_detected <= r.rows_updated
           /\ r.completed_at # None
           /\ (r.status = "completed") <=> (r.rows_quarantined = 0)
           /\ r.status \in {"completed", "partial"}

\* C7 witness: a returned run that counted a conflict and a quarantined row.
C7_Witness ==
    /\ CallEnded
    /\ ended.outcome = "returned"
    /\ ended.run.conflicts_detected = 1
    /\ ended.run.rows_quarantined = 1

\* C8: within one process_folder call the discovered files are ingested in
\* non-decreasing order of derived data_time, whatever the order in which the
\* provider returned them (creation order).
C8_ChronologicalOrder ==
    \A i, j \in 1..Len(results.attempted) :
        i < j => results.attempted[i].data_time <= results.attempted[j].data_time

\* C8 witness: the file created later (the greater file_id) was ingested
\* first, its data_time being the earlier.
C8_Witness ==
    /\ Len(results.attempted) = 2
    /\ results.attempted[1].file_id > results.attempted[2].file_id
    /\ results.attempted[1].data_time < results.attempted[2].data_time

C9_Excluded ==
    \A r \in runs : \A folder \in 1..MaxFolders :
        (pc # "rows" /\ r.status \in {"completed", "partial"} /\ r.folder = folder) =>
            \A i \in 1..Len(discover_new_files(folder)) : discover_new_files(folder)[i].file_id # r.file_id

C9_NothingDone ==
    (pc = "idle" /\ drive' = drive /\ discover_new_files(results'.folder_id) = <<>>) =>
        /\ pc' = "idle"
        /\ bookings' = bookings
        /\ runs' = runs
        /\ results'.message = "No new files found"

\* C9: once ingest_file has succeeded for a file of a folder, no later
\* discover_new_files of that folder returns the file; a process_folder call
\* made when there is no new file creates no IngestionRun, changes no Booking
\* and returns the "No new files found" summary.
C9_ProcessedNotRediscovered == []C9_Excluded /\ [][C9_NothingDone]_vars

\* C9 witness: a process_folder call returned "No new files found" for a
\* folder holding a file that was ingested.
C9_Witness ==
    /\ pc = "idle"
    /\ results.message = "No new files found"
    /\ \E r \in runs : r.folder = results.folder_id /\ r.status \in {"completed", "partial"}

\* C10: when ingest_file raises, nothing that call attempted is persisted: no
\* IngestionRun (not even a failed one), Booking insert or update, RawRow,
\* QuarantinedRow, BookingConflict or ProcessedFile of that call remains.
C10_AllOrNothing ==
    (CallEnded /\ ended.outcome = "raised") =>
        /\ CurrentTables = ended.before
        /\ \A r \in runs : r.id # EndedRunId /\ r.status \notin {"running", "failed"}
        /\ \A b \in bookings : b["ingestion_run"] # EndedRunId
        /\ \A x \in rawrows \cup quarantined \cup conflicts \cup processed : x.ingestion_run # EndedRunId

\* C10 witness: ingest_file raised after it had inserted a booking.
C10_Witness ==
    /\ CallEnded
    /\ ended.outcome = "raised"
    /\ ended.run.rows_inserted = 1

\* C11: a single bad row never aborts a file: when handling one accepted row
\* raises, ingest_file still returns, the row has a QuarantinedRow, and the
\* run counts it in rows_quarantined and finishes `partial`.
C11_BadRowQuarantined ==
    (CallEnded /\ last.action = "raise" /\ last.run.id = EndedRunId) =>
        /\ ended.outcome = "returned"
        /\ ended.run.status = "partial"
        /\ ended.run.rows_quarantined >= 1
        /\ \E q \in quarantined : q.ingestion_run = EndedRunId /\ q.row_index = last.row["_row_index"]

C12_AllAttempted ==
    /\ Len(results.attempted) + Len(queue) = results.files_discovered + (IF pc = "rows" THEN 1 ELSE 0)
    /\ pc # "rows" => results.files_processed + results.files_failed = Len(results.attempted)
    /\ pc = "idle" => queue = <<>>

C12_Recorded ==
    (ended' # ended /\ ended'.outcome = "raised") =>
        /\ results'.files_failed = results.files_failed + 1
        /\ results'.files_processed = results.files_processed
        /\ Len(results'.errors) = Len(results.errors) + 1
        /\ results'.errors[Len(results'.errors)] = ended'.file_id
        /\ queue' = Tail(queue)
        /\ pc' = "folder"

C12_NextInOrder ==
    Len(results'.attempted) = Len(results.attempted) + 1 =>
        results'.attempted[Len(results'.attempted)].file_id = Head(queue).file_id

\* C12: a single bad file never aborts a folder: when ingest_file raises for
\* a discovered file, process_folder adds one to files_failed, appends an
\* error entry naming the file, and goes on to ingest every remaining
\* discovered file in order.
C12_BadFileIsolated == []C12_AllAttempted /\ [][C12_Recorded /\ C12_NextInOrder]_vars

\* C12 witness: process_folder returned after its first file failed and its
\* second file was ingested.
C12_Witness ==
    /\ pc = "idle"
    /\ results.files_failed = 1
    /\ results.files_processed = 1
    /\ results.errors[1] = results.attempted[1].file_id

\* C13: when two triggers interleave on the same (folder, file), the
\* IngestionRun table never holds two rows for the pair, and an ingest_file
\* call on a pair whose run is committed ends in an error and leaves every
\* table as it was, so that the ledger is the one of a single ingestion.
C13_RaceLoserErrors ==
    /\ \A r1, r2 \in runs : (r1.folder = r2.folder /\ r1.file_id = r2.file_id) => r1 = r2
    /\ (CallEnded /\ \E r \in ended.before.runs : r.id = EndedRunId) =>
          /\ ended.outcome = "raised"
          /\ CurrentTables = ended.before
    /\ pc # "rows" => \A b \in bookings : \E r \in runs : r.id = b["ingestion_run"] /\ r.status \in {"completed", "partial"}

\* C13 witness: a trigger called ingest_file on a file the other trigger had
\* ingested after both had discovered it, and the call raised.
C13_Witness ==
    /\ CallEnded
    /\ ended.outcome = "raised"
    /\ \E r \in ended.before.runs : r.id = EndedRunId /\ r.rows_inserted = 1

\* C14: whenever a maximum iteration count n is configured, the poll_bookings
\* loop performs at most n polling iterations and then terminates (after
\* exactly n when it is not interrupted), an exception inside an iteration
\* being logged without stopping the loop.
C14_PollBounded ==
    poll.given =>
        /\ poll.polled <= poll.max_iterations
        /\ (poll.pc = "done" /\ ~poll.interrupted) => poll.polled = poll.max_iterations
        /\ poll.logged <= poll.polled

\* The watch configurations of the caller and folder of the latest call, as
\* they were before it.
CallerWatches == {w \in watch_call.before : w.folder = watch_call.folder_id /\ w.user = watch_call.user}

C15_OnePerPair ==
    \A w1, w2 \in watches : (w1.folder = w2.folder /\ w1.user = w2.user) => w1 = w2

\* C15 as stated: at most one GoogleDriveWatchConfig per (folder, user), and
\* every call made while an active watch exists for the caller and the
\* folder returns 409 and creates no watch configuration.
C15_ActiveWatch409 ==
    /\ C15_OnePerPair
    /\ (\E w \in CallerWatches : w.is_active) =>
          (watch_call.status = 409 /\ watches = watch_call.before)

\* C15 amended: at most one GoogleDriveWatchConfig per (folder, user); a call
\* made while an active watch exists for the caller and the folder creates
\* no watch configuration, and returns 409 when the folder passes validation
\* (404 or 500 when it does not).
C15_ActiveWatch409Validated ==
    /\ C15_OnePerPair
    /\ (\E w \in CallerWatches : w.is_active) =>
          /\ watches = watch_call.before
          /\ watch_call.validation = "ok" => watch_call.status = 409
          /\ watch_call.validation = "missing" => watch_call.status = 404
          /\ watch_call.validation = "raise" => watch_call.status = 500

\* C15 witness: a validated call on a pair with an active watch got 409.
C15_Witness ==
    /\ watch_call.status = 409
    /\ \E w \in CallerWatches : w.is_active
    /\ Cardinality(watches) >= 2

\* C16: a create-patient-user call whose email is already registered is
\* rejected with status 400 and creates no User and no PatientQuestionnaire;
\* a successful call creates exactly one User, whose username is the email's
\* local part, followed by a number on collision, and differs from every
\* existing username, and exactly one empty questionnaire linked to it.
C16_PatientUserCreated ==
    /\ (user_call.status # 0 /\ \E u \in user_call.before : u.email = normalize_email(user_call.email)) =>
          /\ user_call.status = 400
          /\ users = user_call.before
          /\ questionnaires = user_call.qbefore
    /\ user_call.status = 200 =>
          /\ user_call.before \subseteq users
          /\ Cardinality(users \ user_call.before) = 1
          /\ \A u \in users \ user_call.before :
                /\ \A v \in user_call.before : v.username # u.username
                /\ SubSeq(u.username, 1, Len(user_call.email.local)) = user_call.email.local
                /\ questionnaires = user_call.qbefore \cup {EmptyQuestionnaire(u.username)}
                /\ EmptyQuestionnaire(u.username) \notin user_call.qbefore

\* C17: update_questionnaire is idempotent: applying a payload twice in a row
\* leaves the questionnaire with the same field values (is_complete and
\* completed_at included) as applying it once, and the fields the payload
\* does not name keep their previous values.
C17_UpdateIdempotent ==
    /\ q_call.repeated => q_call.after = q_call.once
    /\ q_call.status = 200 =>
          /\ "gender" \notin DOMAIN q_call.data => q_call.after.gender = q_call.before.gender
          /\ "dateOfBirth" \notin DOMAIN q_call.data => q_call.after.date_of_birth = q_call.before.date_of_birth
          /\ "hasMhcp" \notin DOMAIN q_call.data => q_call.after.has_mhcp = q_call.before.has_mhcp
          /\ "isComplete" \notin DOMAIN q_call.data =>
                /\ q_call.after.is_complete = q_call.before.is_complete
                /\ q_call.after.completed_at = q_call.before.completed_at

\* C18: the OAuth callback writes the token cache only in a session in which
\* Start has stored a state: a callback on a session with no stored state
\* returns 400 and leaves the token cache file untouched; the status view
\* reports authenticated exactly when the token cache file exists.
C18_CallbackNeedsState ==
    /\ (auth_call.view = "callback" /\ token_file # auth_call.token_before) =>
          (auth_call.session \in started /\ auth_call.had_state)
    /\ (auth_call.view = "callback" /\ ~auth_call.had_state) =>
          (auth_call.status = 400 /\ token_file = auth_call.token_before)
    /\ auth_call.view = "status" => (auth_call.authenticated <=> token_file # 0)

\* C18 witness: a callback on a session without state was refused while a
\* token cache written by an earlier flow existed.
C18_Witness ==
    /\ auth_call.view = "callback"
    /\ ~auth_call.had_state
    /\ auth_call.status = 400
    /\ token_file = 1

\* The window status the rendering shows for a listed booking.
ShownStatus(g, N) == IF N = 1 THEN g.t1_status ELSE g.t14_status

C20_ExtractionErrorsQuarantined ==
    (CallEnded /\ ended.errors # <<>>) =>
        /\ ended.outcome = "returned"
        /\ \A i \in 1..Len(ended.errors) :
              Cardinality({q \in quarantined : /\ q.ingestion_run = EndedRunId
                                               /\ q.row_index = ended.errors[i].row
                                               /\ q.error_message = ended.errors[i].error}) = 1
        /\ \E r \in runs : /\ r.id = EndedRunId
                           /\ r.rows_quarantined = Len(ended.errors)
                           /\ r.status = "partial"
        /\ \E pf \in processed : pf.file_id = ended.file_id /\ pf.ingestion_run = EndedRunId

\* C21: detect_header_row returns "has header" when the first row contains
\* at least 3 of the indicators No., Status, Name, Surname, Arrive, Depart as
\* substrings of any cell, and "no header" when it contains 2 or fewer.
C21_HeaderDetected ==
    (header_call.called /\ header_call.rows # <<>>) =>
        LET found == Cardinality({indicator \in header_indicators :
                         \E i \in 1..Len(header_call.rows[1]) : Contains(header_call.rows[1][i], indicator)})
        IN /\ found >= 3 => header_call.has_header
           /\ found <= 2 => ~header_call.has_header

\* Two decimals are the same number.
SameNumber(a, b) ==
    /\ ~a.none
    /\ ~b.none
    /\ a.coefficient * 10 ^ b.places = b.coefficient * 10 ^ a.places
    /\ a.coefficient = 0 \/ a.negative = b.negative

\* The decimal -810.40.
MinusEightTen == [none |-> FALSE, negative |-> TRUE, coefficient |-> 81040, places |-> 2]

\* The text between the parentheses of a text wrapped in them.
Wrapped(text) == Len(text) >= 2 /\ text[1] = "(" /\ text[Len(text)] = ")"

Inside(text) == SubSeq(text, 2, Len(text) - 1)

\* C22: parse_decimal("(-$810.40)") and parse_decimal("($810.40)") both yield
\* -810.40 and parse_decimal("#ERROR!") yields an absent value; a number
\* wrapped in parentheses is parsed as the negative of that number.
C22_ParenthesesNegative ==
    decimal_call.called =>
        /\ decimal_call.value = <<"(", "-", "$", "8", "1", "0", ".", "4", "0", ")">> =>
              SameNumber(decimal_call.result, MinusEightTen)
        /\ decimal_call.value = <<"(", "$", "8", "1", "0", ".", "4", "0", ")">> =>
              SameNumber(decimal_call.result, MinusEightTen)
        /\ decimal_call.value = ErrorCell => decimal_call.result.none
        /\ ( /\ Wrapped(decimal_call.value)
             /\ \A i \in 1..Len(decimal_call.value) : decimal_call.value[i] # "-"
             /\ ~parse_decimal(Inside(decimal_call.value)).none ) =>
              SameNumber(decimal_call.result,
                         [parse_decimal(Inside(decimal_call.value)) EXCEPT !.negative = TRUE])

\* C23: for any date cell whose numeric value v exceeds 10000, normalization
\* yields the date 1900-01-01 plus (v - 2) days, and serial 45726 decodes to
\* 2025-09-19.
C23_SerialDecoded ==
    (/\ date_call.called
     /\ date_call.via = "normalize_value"
     /\ date_call.value.kind = "int"
     /\ date_call.value.n > 10000) =>
        /\ date_call.result = DateAfterEpoch(date_call.value.n - 2)
        /\ date_call.value.n = 45726 =>
              date_call.result = [none |-> FALSE, year |-> 2025, month |-> 9, day |-> 19]

\* C24: every committed IngestionRun has status completed or partial, a
\* non-null completed_at and exactly one ProcessedFile with the same folder
\* and file_id; no run in status running or failed is visible outside the
\* ingest_file call that created it.
C24_CommittedRuns ==
    pc # "rows" =>
        \A r \in runs :
            /\ r.status \in {"completed", "partial"}
            /\ r.completed_at # None
            /\ Cardinality({pf \in processed : pf.folder = r.folder /\ pf.file_id = r.file_id}) = 1

\* C24 witness: an ingest_file call has raised and left no run behind, next
\* to the committed run of an earlier call.
C24_Witness ==
    /\ CallEnded
    /\ ended.outcome = "raised"
    /\ runs # {}
    /\ \A r \in runs : r.id # EndedRunId

\* A step of ingest_file's row loop on a row that passed validation.
ValidRowStep == pc = "rows" /\ ing.left > 0 /\ ing' # ing /\ ing'.invalid # ing.invalid + 1

\* C25: when several valid rows of one file carry the same booking number,
\* only the first of them inserts or updates the Booking; every later one is
\* ignored and counted in rows_ignored, and changes neither the ledger nor
\* the conflict log.
C25_FirstRowWins ==
    [][(ValidRowStep /\ last'.row["booking_number"] \in ing.seen) =>
          /\ pc' = "rows"
          /\ last'.action = "ignored"
          /\ bookings' = bookings
          /\ conflicts' = conflicts
          /\ ing'.run.rows_ignored = ing.run.rows_ignored + 1
          /\ ing'.run.rows_inserted = ing.run.rows_inserted
          /\ ing'.run.rows_updated = ing.run.rows_updated]_vars

\* C25 witness: a later row of the running call was ignored although it
\* differs from the row of the same booking number that this call updated.
C25_Witness ==
    /\ pc = "rows"
    /\ last.action = "ignored"
    /\ last.run.id = ing.run.id
    /\ ing.run.rows_updated = 1
    /\ \E b \in bookings :
        /\ b["booking_number"] = last.row["booking_number"]
        /\ b["ingestion_run"] = ing.run.id
        /\ b["status"] # last.row["status"]

\* The BookingConflict rows created by the run of the ended call.
EndedConflicts == {c \in conflicts : c.ingestion_run = EndedRunId}

\* C26: a run's conflicts_detected increases by exactly one per row whose
\* action is conflict, whatever the number of disagreeing immutable fields, and
\* by nothing for any other row; so conflicts_detected is at most the number
\* of BookingConflict rows the run created, with equality only when every
\* conflicting row disagrees in exactly one immutable field.
C26_ConflictsPerRow ==
    /\ [][(ValidRowStep /\ pc' = "rows") =>
             /\ last'.action = "conflict" =>
                   /\ ing'.run.conflicts_detected = ing.run.conflicts_detected + 1
                   /\ conflicts' = conflicts \cup last'.logged
                   /\ last'.logged # {}
             /\ last'.action # "conflict" =>
                   /\ ing'.run.conflicts_detected = ing.run.conflicts_detected
                   /\ conflicts' = conflicts]_vars
    /\ []((CallEnded /\ ended.outcome = "returned") =>
             /\ ended.run.conflicts_detected <= Cardinality(EndedConflicts)
             /\ ended.run.conflicts_detected = Cardinality(EndedConflicts) =>
                   \A c \in EndedConflicts : \A d \in EndedConflicts :
                       c.booking_number = d.booking_number => c = d)

\* C26 witness: a returned run that counted one conflict and created two
\* BookingConflict rows, for two immutable fields of one row.
C26_Witness ==
    /\ CallEnded
    /\ ended.outcome = "returned"
    /\ ended.run.conflicts_detected = 1
    /\ Cardinality(EndedConflicts) = 2

\* C27: a row's original_total is back-filled from its non-zero
\* total_amount, so a strictly newer sighting of a booking whose (non-zero)
\* total_amount differs from the first-seen total yields a BookingConflict on
\* original_total and action conflict, while the stored original_total stays
\* at the first-seen total and total_amount takes the new value.
C27_TotalChangeConflicts ==
    last.action # "none" =>
        \A e \in LastExisting :
            ( /\ e["original_total"] # None
              /\ last.run.data_time > e["source_file_time"]
              /\ Truthy(last.row["total_amount"])
              /\ DbValue("total_amount", last.row["total_amount"]) # e["original_total"] ) =>
                /\ last.action = "conflict"
                /\ \E c \in last.logged : c.field_name = "original_total"
                /\ \A b \in Stored(last.row["booking_number"]) :
                      /\ b["original_total"] = e["original_total"]
                      /\ b["total_amount"] = DbValue("total_amount", last.row["total_amount"])

\* The files the provider lists in the folder.
Listed(folder) == {drive[i].file_id : i \in {j \in 1..Len(drive) : drive[j].folder = folder}}

\* The files discover_new_files returns for the folder now.
Discovered(folder) == {discover_new_files(folder)[i].file_id : i \in 1..Len(discover_new_files(folder))}

\* The files whose ingest_file call raised in the latest process_folder call.
FailedFiles == {results.errors[i] : i \in 1..Len(results.errors)}

Marked(folder, file_id) == \E pf \in processed : pf.folder = folder /\ pf.file_id = file_id

C28_FailedStaysNew ==
    \A file_id \in FailedFiles :
        /\ ~Marked(results.folder_id, file_id)
        /\ \A r \in runs : ~(r.folder = results.folder_id /\ r.file_id = file_id)
        /\ file_id \in Listed(results.folder_id) => file_id \in Discovered(results.folder_id)

C28_FailedCounted ==
    pc # "rows" =>
        results.files_failed = Cardinality({i \in 1..Len(results.attempted) : ~Marked(results.folder_id, results.attempted[i].file_id)})

C28_Rediscovered ==
    (pc = "idle" /\ pc' = "folder") =>
        /\ \A file_id \in Listed(results'.folder_id) :
              ~Marked(results'.folder_id, file_id) => \E i \in 1..Len(queue') : queue'[i].file_id = file_id
        /\ results'.folder_id = results.folder_id =>
              \A file_id \in FailedFiles : \E i \in 1..Len(queue') : queue'[i].file_id = file_id

\* C28: a file whose ingestion fails leaves neither a ProcessedFile marker
\* nor an IngestionRun, so that discover_new_files keeps returning it while
\* the provider lists it: a later process_folder call on the folder that
\* discovers anything has it in its list and attempts it again, and every
\* call counts in files_failed exactly the files it attempted that have no
\* marker.
C28_FailedFileRetried == []C28_FailedStaysNew /\ []C28_FailedCounted /\ [][C28_Rediscovered]_vars

\* C28 witness: ingest_file raised for a file of a folder in which a file
\* created later has its run already.  Files of equal filename date are
\* attempted in creation order, so the later file was ingested by an earlier
\* process_folder call, which attempted this file first and failed on it: the
\* file was rediscovered and has failed again.
C28_Witness ==
    /\ CallEnded
    /\ ended.outcome = "raised"
    /\ results.files_failed = 1
    /\ ended.file_id \in FailedFiles
    /\ \E r \in runs : r.folder = ended.folder /\ r.file_id > ended.file_id /\ r.data_time >= ended.run.data_time

\* The running ingest_file call reads a file that is older than a file
\* ingested before the call began.
OlderFile == \E r \in snapshot.runs : r.data_time > ing.run.data_time

\* C29: when a file with an older data_time is ingested after a file with a
\* newer one, none of its rows changes a Booking stored from a file that is
\* not older or logs a BookingConflict for it, whatever its immutable fields
\* hold, and each of its rows whose booking number is not in the ledger
\* inserts the Booking with source_file_time equal to the older data_time and
\* with the row's immutable facts.
C29_OlderFileInsertsOnly ==
    [][(ValidRowStep /\ OlderFile) =>
          LET row == last'.row
              found == Stored(row["booking_number"])
          IN /\ (found # {} /\ \A e \in found : e["source_file_time"] >= ing.run.data_time) =>
                    /\ last'.action = "ignored"
                    /\ bookings' = bookings
                    /\ conflicts' = conflicts
             /\ found = {} =>
                    /\ last'.action = "inserted"
                    /\ conflicts' = conflicts
                    /\ \E b \in bookings' :
                          /\ bookings' = bookings \cup {b}
                          /\ b["booking_number"] = row["booking_number"]
                          /\ b["source_file_time"] = ing.run.data_time
                          /\ \A f \in ImmutableFacts \cap DOMAIN row : b[f] = DbValue(f, row[f])]_vars

\* C30: booking identity is global across folders: a row of a file of any
\* folder that is strictly newer than the Booking stored under its booking
\* number overwrites that booking's mutable fields and re-points its
\* ingestion_run to the running run, so that the booking is attributed to
\* the ingesting folder and no longer to the folder it came from.
C30_NewerRowMovesBooking ==
    [][(ValidRowStep /\ \E e \in Stored(last'.row["booking_number"]) : e["source_file_time"] < ing.run.data_time) =>
          LET row == last'.row
          IN /\ last'.action \in {"updated", "conflict"}
             /\ Cardinality({b \in bookings' : b["booking_number"] = row["booking_number"]}) = 1
             /\ \A b \in bookings' : b["booking_number"] = row["booking_number"] =>
                    /\ \A f \in MutableAttributes : b[f] = DbValue(f, row[f])
                    /\ b["ingestion_run"] = ing.run.id
                    /\ b \in FolderBookings(bookings', ing.folder)
                    /\ \A folder \in (1..MaxFolders) \ {ing.folder} : b \notin FolderBookings(bookings', folder)]_vars

====
